---- MODULE Spec2Model ----
(***************************************************************************)
(* Telegram relay bot: admin-availability state machine, forward/reply     *)
(* correlation map, per-user cooldown gate and the message router, for     *)
(* both scripts of the repository (src/main.py and src/unnamed/part_000).  *)
(*                                                                         *)
(* A handler is a coroutine.  It runs without interruption from one await  *)
(* to the next; each action below resumes one handler from the await it    *)
(* is parked on and runs it to its next await (or to its end).             *)
(* Time is counted in tenths of a second.                                  *)
(***************************************************************************)
EXTENDS Integers, Sequences, FiniteSets, TLC

VARIABLES
  variant,    \* which of the two scripts runs
  env,        \* the environment of this run (who writes what, and what fails)
  clock,      \* time.time() when the latest text arrived
  received,   \* number of updates received so far
  next_id,    \* the next message id of the admin's chat
  bot_data,   \* context.bot_data
  user_data,  \* context.user_data of each chat's user
  updates,    \* the handlers in flight, in the order their updates arrived
  last,       \* history: the handler that ended most recently
  forwarded,  \* history: id returned by each successful forward -> chat forwarded from
  notice_seen,\* history: handlers that saw the notice of the latest admin command
  notice_at,  \* history: arrival number of the latest admin command (0: none yet)
  accepted,   \* history: arrival times of each chat's texts that passed the cooldown gate
  busy_sent   \* history: first-contact busy messages delivered to each chat

vars == <<variant, env, clock, received, next_id, bot_data, user_data, updates, last,
          forwarded, notice_seen, notice_at, accepted, busy_sent>>

(* ------------------------------ bounds -------------------------------- *)
MaxUpdates == 3
MaxInFlight == 2
Epoch == 100

(* ------------------------- program constants -------------------------- *)
ADMIN_ID == 1
CooldownMain == 15
CooldownVariant == 12
MaxTextLen == 500

Variants == {"main", "part_000"}
Chats == {ADMIN_ID, 7, 8}
\* The instants at which a text can arrive: gaps of 0.3 s, 1.2 s and 1.5 s.
Times == {Epoch, Epoch + 12, Epoch + 15}
\* Message ids of the admin's chat that no forward produced (the admin's own
\* messages, the bot's answers to the admin).
OtherIds == {99}
None == "None"

(* ------------------------------- texts -------------------------------- *)
(* A text is a sequence of characters `head` followed by `pad` filler      *)
(* characters "x" (a run-length form, so that texts longer than 500        *)
(* characters stay small in the state).                                    *)
Text(head, pad) == [head |-> head, pad |-> pad]

TextLen(t) == Len(t.head) + t.pad

\* The text of the admin's replies.
ReplyTexts == { Text(<<"O", "k">>, 0) }

Min(a, b) == IF a < b THEN a ELSE b

\* update.message.text[:500]
Truncate(t) ==
  IF Len(t.head) >= MaxTextLen
    THEN Text(SubSeq(t.head, 1, MaxTextLen), 0)
    ELSE Text(t.head, Min(t.pad, MaxTextLen - Len(t.head)))

\* str.lower() on one character
LowerChar(c) ==
  CASE c = "H" -> "h"
    [] c = "I" -> "i"
    [] c = "N" -> "n"
    [] OTHER -> c

\* str.lower()
Lower(t) == Text([i \in 1..Len(t.head) |-> LowerChar(t.head[i])], t.pad)

greetings ==
  { Text(<<"h", "i">>, 0),
    Text(<<"h", "e", "l", "l", "o">>, 0),
    Text(<<"h", "e", "y">>, 0),
    Text(<<"h", "l", "o">>, 0),
    Text(<<"h", "o", "l", "a">>, 0),
    Text(<<"n", "a", "m", "a", "s", "t", "e">>, 0),
    Text(<<"s", "a", "l", "a", "m">>, 0),
    Text(<<"a", "s", "s", "a", "l", "a", "m", "u", "a", "l", "a", "i", "k", "u", "m">>, 0) }

\* text.lower() in greetings
IsGreeting(t) == Lower(t) \in greetings

\* Character classes of the language sniffer.
IsLatin(c) == c \in {"H", "I", "N", "O", "h", "i", "e", "d", "k", "x"}
IsBengali(c) == c = "bn"
IsDevanagari(c) == c = "dv"

\* The characters of a text.
Chars(t) == {t.head[i] : i \in 1..Len(t.head)} \cup (IF t.pad > 0 THEN {"x"} ELSE {})

\* re.search of one character class
HasLatin(t) == \E c \in Chars(t) : IsLatin(c)
HasBengali(t) == \E c \in Chars(t) : IsBengali(c)
HasDevanagari(t) == \E c \in Chars(t) : IsDevanagari(c)

\* detect_language that looks for the Bengali block first in both scripts.
detect_language_BengaliFirst(v, t) ==
  IF HasBengali(t) THEN "bengali"
  ELSE IF v = "main" /\ HasDevanagari(t) THEN "hindi"
  ELSE "english"

detect_language(v, t) ==
  IF v = "main"
    THEN IF HasDevanagari(t) THEN "hindi"
         ELSE IF HasBengali(t) THEN "bengali"
         ELSE IF HasLatin(t) THEN "english"
         ELSE "english"
    ELSE IF HasBengali(t) THEN "bengali" ELSE "english"

(* ---------------------------- environments ---------------------------- *)
\* A run takes place in one environment: which kinds of update arrive, from
\* whom, with which texts and at which instants, what the generative service
\* does and whether transport calls can fail.
\*   gate    one user's texts at all instants, the admin's /away
\*   notice  two users' texts, /available and /away of the admin and of a user
\*   latch   one user's texts 1.5 s apart, /available and /away of the admin
\*   relay   texts, photos and replies to messages, of the admin and of users
\*   synth   texts and /start, with every outcome of the generative service
\*   script  one user's texts in every mix of Bengali, Devanagari, Latin and
\*           other characters
\*   faulty  texts, photos and admin replies over a network whose calls can
\*           fail, with a generative service that can throw
Hi == Text(<<"H", "i">>, 0)
Need == Text(<<"N", "e", "e", "d">>, 0)
LongHi == Text(<<"h", "i">>, 600)

\* Texts with the characters "bn" (a Bengali-block character), "dv" (a
\* Devanagari-block character), "h" (a Latin letter) and "1" (none of the three).
ScriptTexts ==
  { Text(h, 0) : h \in { <<"1">>, <<"h">>, <<"bn">>, <<"dv">>, <<"bn", "dv">>, <<"dv", "bn">>,
                         <<"bn", "h">>, <<"dv", "h">>, <<"h", "bn", "dv">> } }

Environments == {"gate", "notice", "latch", "relay", "synth", "script", "faulty"}

\* Who sends which kind of update.
Senders(e, kind) ==
  CASE e = "gate" /\ kind = "text" -> {7}
    [] e = "gate" /\ kind = "away" -> {ADMIN_ID}
    [] e = "notice" /\ kind = "text" -> {7, 8}
    [] e = "notice" /\ kind \in {"available", "away"} -> {ADMIN_ID, 7}
    [] e = "latch" /\ kind = "text" -> {7}
    [] e = "latch" /\ kind \in {"available", "away"} -> {ADMIN_ID}
    [] e = "relay" /\ kind = "text" -> {ADMIN_ID, 7}
    [] e = "relay" /\ kind = "reply" -> {ADMIN_ID, 7}
    [] e = "relay" /\ kind = "photo" -> {8}
    [] e = "synth" /\ kind \in {"text", "start"} -> {7}
    [] e = "script" /\ kind = "text" -> {7}
    [] e = "faulty" /\ kind \in {"text", "photo"} -> {7}
    [] e = "faulty" /\ kind = "reply" -> {ADMIN_ID}
    [] OTHER -> {}

EnvTexts(e) ==
  CASE e = "gate" -> {Hi, Need, LongHi}
    [] e = "synth" -> {Hi}
    [] e = "script" -> ScriptTexts
    [] OTHER -> {Need}

EnvTimes(e) ==
  CASE e = "gate" -> Times
    [] e = "latch" -> {Epoch, Epoch + 15}
    [] e = "synth" -> {Epoch, Epoch + 15}
    [] OTHER -> {Epoch}

Failing(e) == e = "faulty"

(* ----------------------------- dictionaries --------------------------- *)
\* dict.get(k, default)
DictGet(d, k, default) == IF k \in DOMAIN d THEN d[k] ELSE default

\* d[k] = v
DictSet(d, k, v) == (k :> v) @@ d

EmptyDict == [k \in {} |-> None]

(* --------------------------- reply literals --------------------------- *)
TYPING == "Bot is typing"
NOT_ALLOWED == "Not allowed."
NOW_AVAILABLE == "Admin is now available."
NOW_AWAY == "Admin is now away."
USER_NOT_FOUND == "User not found."
RELAY(v) == IF v = "main" THEN "Admin: <text>" ELSE "<text>"
AI_TEXT == "<resp.text>"
AI_CANDIDATE == "<str(resp.candidates[0].content)>"
AI_STR_RESP == "<str(resp)>"
RAISED == "<raised>"

START_WELCOME == "Welcome! Send hi to begin"
SENT_TO_USER(v) == IF v = "main" THEN "Sent to user." ELSE "Message sent"
NOTICE_AVAILABLE(v) ==
  IF v = "main" THEN "Admin is available. You can chat now." ELSE "Admin available."
NOTICE_AWAY(v) ==
  IF v = "main" THEN "Admin is busy. Message sent. Reply within 48 hours."
                ELSE "Admin busy. Message sent. Reply within 48 hours."
FIRST_TIME_BUSY == "Admin busy. Message sent. Reply within 48 hours."
MESSAGE_SENT == "Message sent"

\* FALLBACK_RESPONSES has one element in both scripts, so random.choice
\* always returns it.
FALLBACK_RESPONSES(v) == IF v = "main" THEN {"Message sent."} ELSE {"Message sent"}

(* ------------------------- generative service ------------------------- *)
\* What one call of the generative service can do: return a response with
\* text, one without text but with candidates, one with neither, or throw;
\* "thread_throw" / "thread_throw_rate" are asyncio.to_thread itself failing
\* (the second with "rate" or "429" in the error's message).
GeminiOutcomes ==
  {"text", "candidates", "bare", "svc_throw", "thread_throw", "thread_throw_rate"}

Gemini(e) ==
  CASE e = "synth" -> GeminiOutcomes
    [] e = "faulty" -> {"text", "svc_throw"}
    [] OTHER -> {"text"}

\* ask_gemini whose inner function lets the service's exception through.
ask_gemini_Reraise(v, o) ==
  CASE o \in {"thread_throw", "thread_throw_rate", "svc_throw"} -> {RAISED}
    [] o = "text" -> {AI_TEXT}
    [] o = "candidates" -> IF v = "main" THEN {AI_CANDIDATE} ELSE {MESSAGE_SENT}
    [] o = "bare" -> IF v = "main" THEN {AI_STR_RESP} ELSE {MESSAGE_SENT}

ask_gemini(v, o) ==
  CASE o \in {"thread_throw", "thread_throw_rate"} -> {RAISED}
    [] o = "text" -> {AI_TEXT}
    [] o = "candidates" -> IF v = "main" THEN {AI_CANDIDATE} ELSE {MESSAGE_SENT}
    [] o = "bare" -> IF v = "main" THEN {AI_STR_RESP} ELSE {MESSAGE_SENT}
    [] o = "svc_throw" -> IF v = "main" THEN FALLBACK_RESPONSES(v) ELSE {MESSAGE_SENT}

safe_ask_gemini(v, o) ==
  IF ask_gemini(v, o) # {RAISED}
    THEN ask_gemini(v, o)
    ELSE IF v = "main"
           THEN IF o = "thread_throw_rate" THEN FALLBACK_RESPONSES(v) ELSE {MESSAGE_SENT}
           ELSE FALLBACK_RESPONSES(v)

(* ------------------------------ cooldown ------------------------------ *)
Cooldown(v) == IF v = "main" THEN CooldownMain ELSE CooldownVariant

\* user_spam that never stores the timestamp.
user_spam_NoStamp(v, ud, now) ==
  <<now - DictGet(ud, "last_time", 0) < Cooldown(v), ud>>

\* user_spam with the timestamp stored before the test (every message,
\* blocked or not, pushes last_time forward).
user_spam_StampFirst(v, ud, now) ==
  <<now - DictGet(ud, "last_time", 0) < Cooldown(v), DictSet(ud, "last_time", now)>>

\* user_spam: <<blocked, user_data of the sender afterwards>>
user_spam(v, ud, now) ==
  IF now - DictGet(ud, "last_time", 0) < Cooldown(v)
    THEN <<TRUE, ud>>
    ELSE <<FALSE, DictSet(ud, "last_time", now)>>

(* ------------------------------ dispatch ------------------------------ *)
\* The handlers are tried in the order they were added; the first whose
\* filter matches handles the update and the others are not tried.
Dispatch(v, kind, reply_to) ==
  CASE kind = "start" -> "start_cmd"
    [] kind = "available" -> "available_cmd"
    [] kind = "away" -> "away_cmd"
    [] kind = "text" /\ reply_to # 0 -> "admin_reply_handler"
    [] kind = "photo" /\ v = "part_000" -> "photo_handler"
    [] kind = "text" -> "handle_message"
    [] OTHER -> "none"

(* --------------------------- handler records -------------------------- *)
NoText == Text(<<>>, 0)
NoPrompt == <<>>

Terminal == {"done", "dropped", "returned", "raised", "unhandled"}

InFlight == 1..Len(updates)

NewUpdate(from, kind, text, reply_to, handler) ==
  [from |-> from, kind |-> kind, text |-> text, reply_to |-> reply_to,
   seq |-> received + 1, handler |-> handler, pc |-> "start", branch |-> "", lang |-> "",
   fwd |-> 0, status |-> "unread", first_time |-> FALSE, admin_available |-> FALSE,
   prompt |-> NoPrompt,
   gem |-> "", to |-> 0, reply |-> "", relay |-> NoText, out |-> <<>>]

Msg(to, text, relay) == [to |-> to, text |-> text, relay |-> relay]

\* The handler parks on `await update.message.reply_text(text)`.
AwaitReply(u, text) == [u EXCEPT !.pc = "await_reply", !.to = u.from, !.reply = text]

CanReceive == received < MaxUpdates /\ Len(updates) < MaxInFlight

Remove(seq, i) == SubSeq(seq, 1, i - 1) \o SubSeq(seq, i + 1, Len(seq))

\* How a handler ended: whose update it handled, which handler and branch it
\* was, what it asked the synthesizer and whether it returned or raised.
Ended(u) ==
  [from |-> u.from, handler |-> u.handler, text |-> u.text, branch |-> u.branch,
   pc |-> u.pc, gem |-> u.gem, reply |-> u.reply, first_time |-> u.first_time,
   admin_available |-> u.admin_available, prompt |-> u.prompt]

\* A handler that has ended leaves the handlers in flight.
Enter(u) ==
  /\ received' = received + 1
  /\ IF u.pc \in Terminal
       THEN last' = Ended(u) /\ UNCHANGED updates
       ELSE updates' = Append(updates, u) /\ UNCHANGED last

Resume(i, u) ==
  /\ UNCHANGED received
  /\ IF u.pc \in Terminal
       THEN last' = Ended(u) /\ updates' = Remove(updates, i)
       ELSE updates' = [updates EXCEPT ![i] = u] /\ UNCHANGED last

\* The ids a message can be a reply to: any message of the admin's chat for
\* the admin (the forwarded copies have the ids below next_id), a message of
\* the user's own chat for a user.
ReplyTargets(from) == IF from = ADMIN_ID THEN 1..(next_id - 1) \cup OtherIds ELSE OtherIds

(* ------------------------------- state -------------------------------- *)
\* A fresh process without a pickle file: bot_data and every user's
\* user_data are empty dictionaries; time.time() is far past the epoch.
Init ==
  /\ variant \in Variants
  /\ clock = Epoch
  /\ env \in Environments
  /\ next_id = 1
  /\ bot_data = EmptyDict
  /\ user_data = [c \in Chats |-> EmptyDict]
  /\ received = 0
  /\ updates = <<>>
  /\ last = Ended(NewUpdate(0, "", NoText, 0, "none"))
  /\ forwarded = EmptyDict
  /\ notice_seen = 0
  /\ notice_at = 0
  /\ accepted = [c \in Chats |-> <<>>]
  /\ busy_sent = [c \in Chats |-> 0]

(* --------------------- handlers: arrival of an update ------------------ *)
\* HandleMessageEntry without the greeting test.
HandleMessageEntry_NoGreeting(v, ud, now, u) ==
  LET sp == user_spam(v, ud, now)
  IN  IF sp[1]
        THEN <<sp[2], [u EXCEPT !.pc = "dropped", !.branch = "spam"]>>
        ELSE <<sp[2], [u EXCEPT !.pc = "await_forward",
                                !.lang = detect_language(v, Truncate(u.text))]>>

\* handle_message up to its first await: the cooldown gate, the truncation,
\* the greeting test (part_000) and the call of forward_message.
HandleMessageEntry(v, ud, now, u) ==
  LET sp == user_spam(v, ud, now)
      text == Truncate(u.text)
      lang == detect_language(v, text)
  IN  IF sp[1]
        THEN <<sp[2], [u EXCEPT !.pc = "dropped", !.branch = "spam"]>>
        ELSE IF v = "part_000" /\ IsGreeting(text)
          THEN <<sp[2], [u EXCEPT !.pc = "await_gemini", !.branch = "greeting",
                                  !.lang = lang, !.prompt = <<"welcome", lang>>]>>
          ELSE <<sp[2], [u EXCEPT !.pc = "await_forward", !.lang = lang]>>

\* The update arrives at time `now`, which is when user_spam reads the clock.
handle_message(from, text, now) ==
  /\ CanReceive
  /\ Dispatch(variant, "text", 0) = "handle_message"
  /\ now >= clock
  /\ clock' = now
  /\ LET r == HandleMessageEntry(variant, user_data[from], now,
                                 NewUpdate(from, "text", text, 0, "handle_message"))
      IN  /\ user_data' = [user_data EXCEPT ![from] = r[1]]
         /\ Enter(r[2])
         /\ accepted' = IF r[2].pc = "dropped" THEN accepted
                                               ELSE [accepted EXCEPT ![from] = Append(@, now)]
  /\ UNCHANGED <<variant, env, next_id, bot_data, forwarded, notice_seen, notice_at, busy_sent>>

\* start_cmd up to its first await.
start_cmd(from) ==
  /\ CanReceive
  /\ Dispatch(variant, "start", 0) = "start_cmd"
  /\ LET u == NewUpdate(from, "start", NoText, 0, "start_cmd")
     IN  Enter(
           IF variant = "main"
             THEN [u EXCEPT !.pc = "await_typing", !.to = from, !.reply = TYPING]
             ELSE [u EXCEPT !.pc = "await_gemini", !.prompt = <<"welcome", "english">>])
  /\ UNCHANGED <<variant, env, clock, next_id, bot_data, user_data, forwarded, notice_seen, notice_at, accepted, busy_sent>>

\* SetStatus that sets the notice and leaves admin_available as it was.
SetStatus_NoticeOnly(bd, from, available, status, confirmation) ==
  IF from # ADMIN_ID
    THEN <<bd, NOT_ALLOWED>>
    ELSE <<DictSet(bd, "admin_status_changed", status), confirmation>>

\* SetStatus without the check of the caller's identity.
SetStatus_NoCheck(bd, from, available, status, confirmation) ==
  <<DictSet(DictSet(bd, "admin_available", available), "admin_status_changed", status),
    confirmation>>

\* The body shared by available_cmd and away_cmd: <<bot_data, reply>>.
SetStatus(bd, from, available, status, confirmation) ==
  IF from # ADMIN_ID
    THEN <<bd, NOT_ALLOWED>>
    ELSE <<DictSet(DictSet(bd, "admin_available", available),
                   "admin_status_changed", status),
           confirmation>>

available_cmd(from) ==
  /\ CanReceive
  /\ Dispatch(variant, "available", 0) = "available_cmd"
  /\ LET r == SetStatus(bot_data, from, TRUE, "available", NOW_AVAILABLE)
     IN  /\ bot_data' = r[1]
         /\ Enter(
              AwaitReply(NewUpdate(from, "available", NoText, 0, "available_cmd"), r[2]))
  /\ notice_seen' = IF from = ADMIN_ID THEN 0 ELSE notice_seen
  /\ notice_at' = IF from = ADMIN_ID THEN received + 1 ELSE notice_at
  /\ UNCHANGED <<variant, env, clock, next_id, user_data, forwarded, accepted, busy_sent>>

away_cmd(from) ==
  /\ CanReceive
  /\ Dispatch(variant, "away", 0) = "away_cmd"
  /\ LET r == SetStatus(bot_data, from, FALSE, "away", NOW_AWAY)
     IN  /\ bot_data' = r[1]
         /\ Enter(
              AwaitReply(NewUpdate(from, "away", NoText, 0, "away_cmd"), r[2]))
  /\ notice_seen' = IF from = ADMIN_ID THEN 0 ELSE notice_seen
  /\ notice_at' = IF from = ADMIN_ID THEN received + 1 ELSE notice_at
  /\ UNCHANGED <<variant, env, clock, next_id, user_data, forwarded, accepted, busy_sent>>

\* resolve with a default chat for a missing key.
resolve_Default(bd, forwarded_id) ==
  DictGet(DictGet(bd, "forwarded_map", EmptyDict), forwarded_id, ADMIN_ID)

\* bot_data.get("forwarded_map", {}).get(forwarded_id); the None of a missing
\* key is written 0, which is no chat id and is falsy like None.
resolve(bd, forwarded_id) == DictGet(DictGet(bd, "forwarded_map", EmptyDict), forwarded_id, 0)

\* `not user_chat`
Falsy(x) == x = 0

\* admin_reply_handler up to its first await.
AdminReplyEntry(v, bd, u) ==
  IF u.from # ADMIN_ID
    THEN [u EXCEPT !.pc = "returned"]
    ELSE IF u.reply_to = 0
      THEN [u EXCEPT !.pc = "returned"]
      ELSE IF Falsy(resolve(bd, u.reply_to))
        THEN AwaitReply(u, USER_NOT_FOUND)
        ELSE [u EXCEPT !.pc = "await_send", !.to = resolve(bd, u.reply_to),
                       !.reply = RELAY(v), !.relay = u.text]

admin_reply_handler(from, text, reply_to) ==
  /\ CanReceive
  /\ Dispatch(variant, "text", reply_to) = "admin_reply_handler"
  /\ Enter(
       AdminReplyEntry(variant, bot_data, NewUpdate(from, "text", text, reply_to, "admin_reply_handler")))
  /\ UNCHANGED <<variant, env, clock, next_id, bot_data, user_data, forwarded, notice_seen, notice_at, accepted, busy_sent>>

\* photo_handler (part_000) up to its first await.
photo_handler(from) ==
  /\ CanReceive
  /\ Dispatch(variant, "photo", 0) = "photo_handler"
  /\ Enter(
       [NewUpdate(from, "photo", NoText, 0, "photo_handler") EXCEPT !.pc = "await_forward"])
  /\ UNCHANGED <<variant, env, clock, next_id, bot_data, user_data, forwarded, notice_seen, notice_at, accepted, busy_sent>>

\* An update no handler's filter matches (a photo in main.py) is discarded.
Unhandled(from, kind) ==
  /\ CanReceive
  /\ Dispatch(variant, kind, 0) = "none"
  /\ Enter([NewUpdate(from, kind, NoText, 0, "none") EXCEPT !.pc = "unhandled"])
  /\ UNCHANGED <<variant, env, clock, next_id, bot_data, user_data, forwarded, notice_seen, notice_at, accepted, busy_sent>>

(* --------------------- handlers: return of an await ------------------- *)
\* A transport call (forward_message, reply_text, send_message) returns or,
\* where the network fails, raises.
Outcomes == IF Failing(env) THEN BOOLEAN ELSE {TRUE}

\* recordForward that starts a new map at every forward (an assignment in
\* place of setdefault).
recordForward_Fresh(bd, forwarded_id, chat) ==
  DictSet(bd, "forwarded_map", DictSet(EmptyDict, forwarded_id, chat))

\* recordForward with key and value exchanged.
recordForward_Swapped(bd, forwarded_id, chat) ==
  DictSet(bd, "forwarded_map",
          DictSet(DictGet(bd, "forwarded_map", EmptyDict), chat, forwarded_id))

\* context.bot_data.setdefault("forwarded_map", {})[fwd.message_id] = chat
recordForward(bd, forwarded_id, chat) ==
  DictSet(bd, "forwarded_map",
          DictSet(DictGet(bd, "forwarded_map", EmptyDict), forwarded_id, chat))

\* What follows the try/except around forward_message.
AfterForward(u) ==
  IF u.handler = "photo_handler"
    THEN AwaitReply(u, MESSAGE_SENT)
    ELSE [u EXCEPT !.pc = "await_typing", !.to = u.from, !.reply = TYPING]

\* forward_message returns the id of the copy in the admin's chat, or raises
\* (the exception is swallowed and nothing is recorded).
ForwardReturns(i, ok) ==
  /\ i \in InFlight
  /\ updates[i].pc = "await_forward"
  /\ ok \in Outcomes
  /\ IF ok
       THEN /\ bot_data' = recordForward(bot_data, next_id, updates[i].from)
            /\ next_id' = next_id + 1
            /\ forwarded' = DictSet(forwarded, next_id, updates[i].from)
            /\ Resume(i, AfterForward([updates[i] EXCEPT !.fwd = next_id]))
       ELSE /\ Resume(i, AfterForward(updates[i]))
            /\ UNCHANGED <<bot_data, next_id, forwarded>>
  /\ UNCHANGED <<variant, env, clock, user_data, notice_seen, notice_at, accepted, busy_sent>>

\* The f-string of the general branch: of the four values at hand it
\* interpolates {lang} and {text}; admin_available and first_time appear in
\* its rules by name only.
intelligent_prompt(lang, text, admin_available, first_time) == <<"general", lang, text>>

\* GeneralStep that takes every text for a first contact.
GeneralStep_AlwaysFirst(v, bd, ud, u) ==
  LET admin_available == DictGet(bd, "admin_available", FALSE)
      g == [u EXCEPT !.branch = "general", !.first_time = TRUE,
                     !.admin_available = admin_available]
  IN  <<bd, DictSet(ud, "busy_shown", TRUE),
        IF v = "main"
          THEN [g EXCEPT !.pc = "await_gemini",
                         !.prompt = intelligent_prompt(detect_language(v, Truncate(u.text)),
                                                       Truncate(u.text), admin_available, TRUE)]
          ELSE IF admin_available THEN AwaitReply(g, MESSAGE_SENT)
          ELSE AwaitReply(g, FIRST_TIME_BUSY)>>

\* GeneralStep that stores first_time in busy_shown.
GeneralStep_StoresFirstTime(v, bd, ud, u) ==
  LET first_time == ~DictGet(ud, "busy_shown", FALSE)
  IN  <<bd, DictSet(ud, "busy_shown", first_time),
        [u EXCEPT !.branch = "general", !.first_time = first_time,
                  !.admin_available = DictGet(bd, "admin_available", FALSE),
                  !.pc = "await_reply", !.to = u.from, !.reply = MESSAGE_SENT]>>

\* The continuation once no notice is pending: the first-time logic and the
\* choice of the reply.
GeneralStep(v, bd, ud, u) ==
  LET first_time == ~DictGet(ud, "busy_shown", FALSE)
      admin_available == DictGet(bd, "admin_available", FALSE)
      text == Truncate(u.text)
      g == [u EXCEPT !.branch = "general", !.first_time = first_time,
                     !.admin_available = admin_available]
  IN  <<bd, DictSet(ud, "busy_shown", TRUE),
        IF v = "main"
          THEN [g EXCEPT !.pc = "await_gemini",
                         !.prompt = intelligent_prompt(detect_language(v, text), text,
                                                       admin_available, first_time)]
          ELSE IF admin_available THEN AwaitReply(g, MESSAGE_SENT)
          ELSE IF first_time THEN AwaitReply(g, FIRST_TIME_BUSY)
          ELSE AwaitReply(g, MESSAGE_SENT)>>

\* NoticeStep with the first-time logic ahead of the notice check.
NoticeStep_BusyFirst(v, bd, ud, u) ==
  LET admin_status == DictGet(bd, "admin_status_changed", None)
      seen == [u EXCEPT !.status = admin_status]
      marked == DictSet(ud, "busy_shown", TRUE)
  IN  IF admin_status = "available"
        THEN <<DictSet(bd, "admin_status_changed", None), marked,
               AwaitReply([seen EXCEPT !.branch = "notice"], NOTICE_AVAILABLE(v))>>
      ELSE IF admin_status = "away"
        THEN <<DictSet(bd, "admin_status_changed", None), marked,
               AwaitReply([seen EXCEPT !.branch = "notice"], NOTICE_AWAY(v))>>
      ELSE GeneralStep(v, bd, ud, seen)

\* NoticeStep with the reset of the available notice left out.
NoticeStep_AvailableKept(v, bd, ud, u) ==
  LET admin_status == DictGet(bd, "admin_status_changed", None)
      seen == [u EXCEPT !.status = admin_status]
  IN  IF admin_status = "available"
        THEN <<bd, ud, AwaitReply([seen EXCEPT !.branch = "notice"], NOTICE_AVAILABLE(v))>>
      ELSE IF admin_status = "away"
        THEN <<DictSet(bd, "admin_status_changed", None), ud,
               AwaitReply([seen EXCEPT !.branch = "notice"], NOTICE_AWAY(v))>>
      ELSE GeneralStep(v, bd, ud, seen)

\* NoticeStep with the reset of the away notice left out.
NoticeStep_NoReset(v, bd, ud, u) ==
  LET admin_status == DictGet(bd, "admin_status_changed", None)
      seen == [u EXCEPT !.status = admin_status]
  IN  IF admin_status = "available"
        THEN <<DictSet(bd, "admin_status_changed", None), ud,
               AwaitReply([seen EXCEPT !.branch = "notice"], NOTICE_AVAILABLE(v))>>
      ELSE IF admin_status = "away"
        THEN <<bd, ud, AwaitReply([seen EXCEPT !.branch = "notice"], NOTICE_AWAY(v))>>
      ELSE GeneralStep(v, bd, ud, seen)

\* handle_message from the end of type_animation to its next await:
\* <<bot_data, user_data of the sender, handler>>.
NoticeStep(v, bd, ud, u) ==
  LET admin_status == DictGet(bd, "admin_status_changed", None)
      seen == [u EXCEPT !.status = admin_status]
  IN  IF admin_status = "available"
        THEN <<DictSet(bd, "admin_status_changed", None), ud,
               AwaitReply([seen EXCEPT !.branch = "notice"], NOTICE_AVAILABLE(v))>>
      ELSE IF admin_status = "away"
        THEN <<DictSet(bd, "admin_status_changed", None), ud,
               AwaitReply([seen EXCEPT !.branch = "notice"], NOTICE_AWAY(v))>>
      ELSE GeneralStep(v, bd, ud, seen)

\* type_animation: reply_text returns or raises (swallowed), then the sleep
\* ends and the handler runs on to its next await.  Nothing of the handler
\* happens between the two awaits, so they are one step.
TypeAnimationReturns(i, ok) ==
  /\ i \in InFlight
  /\ updates[i].pc = "await_typing"
  /\ ok \in Outcomes
  /\ LET typed == [updates[i] EXCEPT
                     !.out = IF ok THEN Append(@, Msg(updates[i].to, TYPING, NoText)) ELSE @]
     IN  IF updates[i].handler = "start_cmd"
           THEN /\ Resume(i, AwaitReply(typed, START_WELCOME))
                /\ UNCHANGED <<bot_data, user_data, notice_seen>>
           ELSE LET r == NoticeStep(variant, bot_data, user_data[updates[i].from], typed)
                IN  /\ bot_data' = r[1]
                    /\ user_data' = [user_data EXCEPT ![updates[i].from] = r[2]]
                    /\ notice_seen' = IF r[3].status \in {"available", "away"}
                                        THEN notice_seen + 1 ELSE notice_seen
                    /\ Resume(i, r[3])
  /\ UNCHANGED <<variant, env, clock, next_id, forwarded, notice_at, accepted, busy_sent>>

\* safe_ask_gemini returns (smart_welcome's strip changes nothing here).
GeminiReturns(i, o) ==
  /\ i \in InFlight
  /\ updates[i].pc = "await_gemini"
  /\ o \in Gemini(env)
  /\ \E reply \in safe_ask_gemini(variant, o) :
       Resume(i, AwaitReply([updates[i] EXCEPT !.gem = o], reply))
  /\ UNCHANGED <<variant, env, clock, next_id, bot_data, user_data, forwarded, notice_seen, notice_at, accepted, busy_sent>>

\* admin_reply_handler: send_message to the user's chat returns or raises.
SendReturns(i, ok) ==
  /\ i \in InFlight
  /\ updates[i].pc = "await_send"
  /\ ok \in Outcomes
  /\ Resume(i,
       IF ok
         THEN AwaitReply([updates[i] EXCEPT
                            !.out = Append(@, Msg(updates[i].to, updates[i].reply,
                                                  updates[i].relay))],
                         SENT_TO_USER(variant))
         ELSE [updates[i] EXCEPT !.pc = "raised"])
  /\ UNCHANGED <<variant, env, clock, next_id, bot_data, user_data, forwarded, notice_seen, notice_at, accepted, busy_sent>>

\* The reply is the first-contact busy message: the general branch's reply
\* to a sender seen for the first time while the admin is away (part_000's
\* literal; in main.py the reply the prompt's rule 3 asks for).
IsFirstContactBusy(u) == u.branch = "general" /\ u.first_time /\ ~u.admin_available

\* The last reply_text of a handler returns or raises.
ReplyReturns(i, ok) ==
  /\ i \in InFlight
  /\ updates[i].pc = "await_reply"
  /\ ok \in Outcomes
  /\ Resume(i,
       IF ok
         THEN [updates[i] EXCEPT !.pc = "done",
                 !.out = Append(@, Msg(updates[i].to, updates[i].reply, NoText))]
         ELSE [updates[i] EXCEPT !.pc = "raised"])
  /\ busy_sent' = IF ok /\ IsFirstContactBusy(updates[i])
                     THEN [busy_sent EXCEPT ![updates[i].from] = @ + 1]
                     ELSE busy_sent
  /\ UNCHANGED <<variant, env, clock, next_id, bot_data, user_data, forwarded, notice_seen, notice_at, accepted>>

(* ---------------------------- specification --------------------------- *)
Next ==
  \/ \E from \in Senders(env, "text"), text \in EnvTexts(env), now \in EnvTimes(env) :
       handle_message(from, text, now)
  \/ \E from \in Senders(env, "start") : start_cmd(from)
  \/ \E from \in Senders(env, "available") : available_cmd(from)
  \/ \E from \in Senders(env, "away") : away_cmd(from)
  \/ \E from \in Senders(env, "reply"), text \in ReplyTexts :
       \E reply_to \in ReplyTargets(from) : admin_reply_handler(from, text, reply_to)
  \/ \E from \in Senders(env, "photo") : photo_handler(from)
  \/ \E from \in Senders(env, "photo") : Unhandled(from, "photo")
  \/ \E i \in 1..MaxInFlight, ok \in BOOLEAN : ForwardReturns(i, ok)
  \/ \E i \in 1..MaxInFlight, ok \in BOOLEAN : TypeAnimationReturns(i, ok)
  \/ \E i \in 1..MaxInFlight, o \in GeminiOutcomes : GeminiReturns(i, o)
  \/ \E i \in 1..MaxInFlight, ok \in BOOLEAN : SendReturns(i, ok)
  \/ \E i \in 1..MaxInFlight, ok \in BOOLEAN : ReplyReturns(i, ok)

Spec == Init /\ [][Next]_vars

(* ====================================================================== *)
(*                                 Claims                                  *)
(* ====================================================================== *)
LastTime(c) == DictGet(user_data[c], "last_time", 0)
BusyShown(c) == DictGet(user_data[c], "busy_shown", FALSE)
Pending == DictGet(bot_data, "admin_status_changed", None)
AdminAvailable == DictGet(bot_data, "admin_available", FALSE)

\* The step is the arrival of an update.
Arrives == received' = received + 1

\* The step is the arrival of an update whose handler parks on an await.
Parks == Arrives /\ Len(updates') = Len(updates) + 1

\* After an arrival: how the handler of the new update stands.
Newest == IF Len(updates) > 0 THEN updates[Len(updates)] ELSE NewUpdate(0, "", NoText, 0, "none")

\* The step takes handler i of handle_message through the notice check.
ChecksNotice(i) ==
  /\ i \in 1..Len(updates)
  /\ updates[i].handler = "handle_message"
  /\ updates[i].pc = "await_typing"
  /\ Len(updates') = Len(updates)
  /\ updates'[i].pc # "await_typing"

(* C1: a text that arrives less than the cooldown interval after the       *)
(* sender's last accepted text is dropped by handle_message: nothing is    *)
(* forwarded or recorded, no handler stays in flight to send a filler or a *)
(* reply, and last_time keeps its value; a text that arrives at or after   *)
(* the interval is accepted and sets last_time to its arrival time.        *)
C1_CooldownGate ==
  [][\A c \in Chats :
       (Arrives /\ clock' >= clock /\ (IF Parks THEN Newest' ELSE last').handler = "handle_message"
                /\ (IF Parks THEN Newest' ELSE last').from = c)
       => IF clock' - LastTime(c) < Cooldown(variant)
            THEN /\ ~Parks
                 /\ last'.pc = "dropped"
                 /\ UNCHANGED <<bot_data, user_data, updates, next_id, forwarded>>
            ELSE /\ Parks
                 /\ LastTime(c)' = clock'
                 /\ Newest'.pc \in {"await_forward", "await_gemini"}]_vars

C1_Witness ==
  /\ last.handler = "handle_message"
  /\ last.pc = "dropped"
  /\ \E c \in Chats : last.from = c /\ clock - LastTime(c) < Cooldown(variant)
                      /\ clock > LastTime(c)

(* C2: the notice check of handle_message returns the pending notice and   *)
(* leaves none behind, so that after each /available or /away of the admin *)
(* the first check returns that command's notice and every later one       *)
(* returns none; only the admin's commands set a notice.                   *)
C2_ConsumeOnce ==
  [][/\ \A i \in 1..MaxInFlight :
          ChecksNotice(i) => /\ updates'[i].status = Pending
                             /\ Pending' = None
     /\ (Pending' # Pending /\ Pending' # None)
          => /\ Parks
             /\ Newest'.from = ADMIN_ID
             /\ Newest'.handler \in {"available_cmd", "away_cmd"}
             /\ Pending' = (IF Newest'.handler = "available_cmd" THEN "available" ELSE "away")
             /\ notice_seen' = 0]_vars

C2_Witness ==
  /\ notice_seen = 1
  /\ Pending = None
  /\ \E i \in 1..Len(updates) : updates[i].status = None /\ updates[i].branch = "general"

(* C3: at most one handler sees the notice of an admin command, even when  *)
(* several handlers are in flight and interleave at their awaits.          *)
C3_AtMostOneSeesNotice == notice_seen <= 1

C3_Witness ==
  \E i, j \in 1..Len(updates) :
    /\ i < j
    /\ updates[i].from # updates[j].from
    /\ updates[j].status \in {"available", "away"}
    /\ updates[i].status = None
    /\ notice_seen = 1

(* C4: /available and /away from anyone but the admin change neither       *)
(* admin_available nor admin_status_changed and answer with the rejection; *)
(* from the admin they set both to the command's values.                   *)
C4_Authorization ==
  [][(Arrives /\ Parks /\ Newest'.handler \in {"available_cmd", "away_cmd"})
       => IF Newest'.from # ADMIN_ID
            THEN /\ bot_data' = bot_data
                 /\ Newest'.pc = "await_reply"
                 /\ Newest'.to = Newest'.from
                 /\ Newest'.reply = NOT_ALLOWED
            ELSE /\ AdminAvailable' = (Newest'.handler = "available_cmd")
                 /\ Pending' = (IF Newest'.handler = "available_cmd" THEN "available" ELSE "away")
                 /\ Newest'.reply \in {NOW_AVAILABLE, NOW_AWAY}]_vars

C4_Witness ==
  \E i \in 1..Len(updates) :
    /\ updates[i].handler = "away_cmd"
    /\ updates[i].from # ADMIN_ID
    /\ updates[i].reply = NOT_ALLOWED
    /\ "admin_status_changed" \notin DOMAIN bot_data

(* C5: once a forward of a message of chat c has returned id x, resolve(x) *)
(* is c, and an admin reply to x goes to chat c and to no other chat, the  *)
(* acknowledgment to the admin following it; resolve(y) finds nothing for  *)
(* every id y that no forward returned.                                    *)
C5_Resolve ==
  /\ \A x \in DOMAIN forwarded : resolve(bot_data, x) = forwarded[x]
  /\ \A y \in (1..(next_id + 1) \cup OtherIds) \ DOMAIN forwarded : resolve(bot_data, y) = 0
  /\ \A i \in 1..Len(updates) :
       LET u == updates[i]
       IN  (u.handler = "admin_reply_handler" /\ u.reply_to \in DOMAIN forwarded)
             => /\ u.from = ADMIN_ID
                /\ u.pc \in {"await_send", "await_reply"}
                /\ u.pc = "await_send"
                     => u.to = forwarded[u.reply_to] /\ u.relay = u.text /\ u.out = <<>>
                /\ u.pc = "await_reply"
                     => /\ u.out = <<Msg(forwarded[u.reply_to], RELAY(variant), u.text)>>
                        /\ u.to = ADMIN_ID
                        /\ u.reply = SENT_TO_USER(variant)

C5_Witness ==
  \E i \in 1..Len(updates) :
    /\ updates[i].handler = "admin_reply_handler"
    /\ updates[i].pc = "await_reply"
    /\ updates[i].reply = SENT_TO_USER(variant)
    /\ Len(updates[i].out) = 1
    /\ updates[i].out[1].to # ADMIN_ID
    /\ Cardinality(DOMAIN forwarded) >= 2

(* C6: an admin reply to a message id that is no key of the correlation    *)
(* map is answered with "User not found" to the admin; nothing is sent to  *)
(* a user's chat, and the map, the admin state and the users' attributes   *)
(* stay as they are.                                                       *)
C6_UserNotFound ==
  [][/\ (Arrives /\ Parks /\ Newest'.handler = "admin_reply_handler"
                 /\ Newest'.reply_to \notin DOMAIN forwarded)
          => /\ Newest'.from = ADMIN_ID
             /\ Newest'.pc = "await_reply"
             /\ Newest'.reply = USER_NOT_FOUND
             /\ UNCHANGED <<bot_data, user_data, forwarded>>
     /\ \A i \in 1..Len(updates') :
          updates'[i].reply = USER_NOT_FOUND
            => updates'[i].to = ADMIN_ID /\ updates'[i].out = <<>>
     /\ last'.reply = USER_NOT_FOUND => last'.from = ADMIN_ID]_vars

C6_Witness ==
  /\ DOMAIN forwarded # {}
  /\ \E i \in 1..Len(updates) :
       /\ updates[i].handler = "admin_reply_handler"
       /\ updates[i].from = ADMIN_ID
       /\ updates[i].reply_to \notin DOMAIN forwarded
       /\ updates[i].reply = USER_NOT_FOUND

(* C7: busy_shown is a latch: once true for a user it stays true.          *)
C7_BusyShownLatch ==
  [][\A c \in Chats : BusyShown(c) => BusyShown(c)']_vars

C7_Witness ==
  \E i \in 1..Len(updates) :
    /\ updates[i].branch = "general"
    /\ ~updates[i].first_time
    /\ BusyShown(updates[i].from)

(* C8: a text that reaches the notice check while a notice is pending has  *)
(* had its forward attempted, and recorded under the id the forward        *)
(* returned (a forward that raises is swallowed and has no id to record;   *)
(* it happens only where the network fails); the text is answered with the *)
(* notice of the pending transition, the notice is cleared and the handler *)
(* goes no further: the first-time logic is not run and busy_shown of the  *)
(* sender keeps its value (so after /away a user's first text gets the     *)
(* away notice from the notice branch).                                    *)
C8_NoticeFirst ==
  [][\A i \in 1..MaxInFlight :
       (ChecksNotice(i) /\ Pending \in {"available", "away"})
         => /\ updates'[i].branch = "notice"
            /\ updates'[i].pc = "await_reply"
            /\ updates'[i].to = updates[i].from
            /\ updates'[i].reply = (IF Pending = "away" THEN NOTICE_AWAY(variant)
                                                        ELSE NOTICE_AVAILABLE(variant))
            /\ updates'[i].prompt = NoPrompt
            /\ ~updates'[i].first_time
            /\ Pending' = None
            /\ AdminAvailable' = AdminAvailable
            /\ user_data' = user_data
            /\ updates[i].fwd # 0 => resolve(bot_data, updates[i].fwd) = updates[i].from
            /\ ~Failing(env) => updates[i].fwd # 0]_vars

C8_Witness ==
  \E i \in 1..Len(updates) :
    /\ updates[i].branch = "notice"
    /\ updates[i].status = "away"
    /\ updates[i].reply = NOTICE_AWAY(variant)
    /\ updates[i].fwd # 0
    /\ ~BusyShown(updates[i].from)
    /\ received = 2

\* After an arrival: the handler of the new update, parked or ended.
Arrived == IF Parks THEN Newest' ELSE last'

(* C9 as claimed: every text whose truncated text is a greeting token,     *)
(* whatever its case, takes the greeting branch: a welcome is asked for,   *)
(* nothing is forwarded or recorded, and the pending notice and busy_shown *)
(* keep their values.                                                      *)
C9_Original ==
  [][(Arrives /\ Arrived.handler = "handle_message" /\ IsGreeting(Truncate(Arrived.text)))
       => /\ Parks
          /\ Newest'.branch = "greeting"
          /\ Newest'.pc = "await_gemini"
          /\ UNCHANGED <<bot_data, forwarded>>
          /\ \A c \in Chats : BusyShown(c)' = BusyShown(c)]_vars

(* C9 as amended: in part_000 every text that passes the cooldown gate and *)
(* whose truncated text is a greeting token, whatever its case, takes the  *)
(* greeting branch: a welcome is asked for and sent to the sender, nothing *)
(* is forwarded or recorded, the notice check is not reached and           *)
(* busy_shown keeps its value.  main.py has no greeting branch: there such *)
(* a text goes on to the forward like any other.                           *)
C9_GreetingBranch ==
  [][/\ (Parks /\ Newest'.handler = "handle_message" /\ IsGreeting(Truncate(Newest'.text)))
          => IF variant = "part_000"
               THEN /\ Newest'.branch = "greeting"
                    /\ Newest'.pc = "await_gemini"
                    /\ Newest'.prompt = <<"welcome", "english">>
                    /\ UNCHANGED <<bot_data, forwarded, next_id>>
                    /\ \A c \in Chats : BusyShown(c)' = BusyShown(c)
               ELSE /\ Newest'.branch = ""
                    /\ Newest'.pc = "await_forward"
     /\ \A i \in 1..Len(updates') :
          updates'[i].branch = "greeting"
            => /\ variant = "part_000"
               /\ IsGreeting(Truncate(updates'[i].text))
               /\ updates'[i].fwd = 0
               /\ updates'[i].status = "unread"
               /\ updates'[i].out = <<>>
               /\ updates'[i].pc \in {"await_gemini", "await_reply"}
               /\ updates'[i].pc = "await_reply"
                    => /\ updates'[i].to = updates'[i].from
                       /\ updates'[i].reply \in safe_ask_gemini(variant, updates'[i].gem)]_vars

C9_Witness ==
  /\ variant = "part_000"
  /\ received = 1
  /\ \E i \in 1..Len(updates) :
       /\ updates[i].branch = "greeting"
       /\ updates[i].text = Hi
       /\ updates[i].pc = "await_reply"

(* C10: when the generative service throws, safe_ask_gemini returns the    *)
(* script's one fallback string, and the handler that asked goes on to     *)
(* send that string to the sender and ends without raising (the exception  *)
(* of the service never leaves the handler: it ends raising only where the *)
(* transport call that sends the string fails).                            *)
C10_FallbackOnThrow ==
  /\ \A i \in 1..Len(updates) :
       updates[i].gem = "svc_throw"
         => /\ updates[i].pc = "await_reply"
            /\ updates[i].to = updates[i].from
            /\ updates[i].reply \in FALLBACK_RESPONSES(variant)
            /\ updates[i].reply # RAISED
  /\ last.gem = "svc_throw"
       => /\ last.reply \in FALLBACK_RESPONSES(variant)
          /\ last.pc \in {"done", "raised"}
          /\ last.pc = "raised" => Failing(env)

C10_Witness ==
  /\ last.gem = "svc_throw"
  /\ last.pc = "done"
  /\ last.reply \in FALLBACK_RESPONSES(variant)
  /\ \E i \in 1..Len(updates) : updates[i].gem = "svc_throw"

(* C11: for every kind of failure of the generative service (a thrown      *)
(* error, a response without text, a response with neither text nor        *)
(* candidates) the synthesizer returns the script's fixed fallback string  *)
(* and nothing derived from the failed response.                           *)
C11_FallbackOnEveryFailure ==
  \A i \in 1..Len(updates) :
    updates[i].gem \in {"svc_throw", "candidates", "bare"}
      => /\ updates[i].reply \in FALLBACK_RESPONSES(variant)
         /\ updates[i].reply \notin {AI_CANDIDATE, AI_STR_RESP}

(* C12: no failure of a transport call leaves its handler: a failed        *)
(* forward records nothing, and after a failed forward_message, reply_text *)
(* or send_message the handler goes on as if the call had returned and     *)
(* ends without raising.                                                   *)
C12_TransportSwallowed ==
  /\ last.pc # "raised"
  /\ \A x \in DOMAIN DictGet(bot_data, "forwarded_map", EmptyDict) : x \in DOMAIN forwarded
  /\ \A i \in 1..Len(updates) : updates[i].pc # "raised"

(* C13: of any two texts of one user that arrive less than the cooldown    *)
(* interval apart (two texts at the same instant included), at most one    *)
(* passes the gate, however the handlers interleave: the arrival times of  *)
(* a user's accepted texts lie at least the interval apart.                *)
C13_AtMostOnePasses ==
  \A c \in Chats :
    \A i, j \in 1..Len(accepted[c]) :
      i < j => accepted[c][j] - accepted[c][i] >= Cooldown(variant)

C13_Witness ==
  \E c \in Chats :
    /\ Len(accepted[c]) = 2
    /\ last.pc = "dropped" /\ last.from = c
    /\ \E i, j \in 1..Len(updates) :
         i < j /\ updates[i].from = c /\ updates[j].from = c
               /\ updates[i].handler = "handle_message"
               /\ updates[j].handler = "handle_message"

\* Which character classes the text handed to detect_language contains.
Bn(u) == "bn" \in Chars(Truncate(u.text))
Dv(u) == "dv" \in Chars(Truncate(u.text))

(* C14 as claimed: the language of every accepted text is bengali if the   *)
(* text has a Bengali-block character; otherwise hindi if it has a         *)
(* Devanagari-block character and the script supports Hindi; otherwise     *)
(* english.                                                                *)
C14_Original ==
  \A i \in 1..Len(updates) :
    updates[i].handler = "handle_message"
      => updates[i].lang = (IF Bn(updates[i]) THEN "bengali"
                            ELSE IF Dv(updates[i]) /\ variant = "main" THEN "hindi"
                            ELSE "english")

(* C14 as amended: detect_language gives every accepted text one of the    *)
(* three languages.  In main.py: hindi if the text has a Devanagari-block  *)
(* character; otherwise bengali if it has a Bengali-block character;       *)
(* otherwise english.  In part_000: bengali if it has a Bengali-block      *)
(* character, otherwise english.                                           *)
C14_DetectLanguage ==
  \A i \in 1..Len(updates) :
    updates[i].handler = "handle_message"
      => /\ updates[i].lang \in {"bengali", "hindi", "english"}
         /\ variant = "main"
              => updates[i].lang = (IF Dv(updates[i]) THEN "hindi"
                                    ELSE IF Bn(updates[i]) THEN "bengali"
                                    ELSE "english")
         /\ variant = "part_000"
              => updates[i].lang = (IF Bn(updates[i]) THEN "bengali" ELSE "english")

C14_Witness ==
  /\ variant = "main"
  /\ \E i \in 1..Len(updates) :
       /\ Bn(updates[i]) /\ Dv(updates[i])
       /\ updates[i].lang = "hindi"
       /\ updates[i].pc = "await_gemini"
       /\ updates[i].prompt[2] = "hindi"

(* C15: the prompt of the general branch embeds the admin-availability     *)
(* boolean and the first-time boolean: a handler that builds the prompt    *)
(* for the same text as the handler that ended before it, with another     *)
(* value of admin_available or of first_time, passes another prompt to the *)
(* synthesizer.                                                            *)
C15_PromptEmbedsFlags ==
  \A i \in 1..Len(updates) :
    ( /\ Len(updates) = 1
      /\ updates[i].branch = "general" /\ last.branch = "general"
      /\ updates[i].prompt # NoPrompt /\ last.prompt # NoPrompt
      /\ updates[i].text = last.text
      /\ \/ updates[i].admin_available # last.admin_available
         \/ updates[i].first_time # last.first_time )
    => updates[i].prompt # last.prompt

(* C16: the admin reply branch applies only to the admin: a text that is a *)
(* reply to a message and comes from anyone else is handled by             *)
(* handle_message like the sender's other texts (it meets the cooldown     *)
(* gate and, once accepted, goes on to the forward), never by              *)
(* admin_reply_handler.                                                    *)
C16_ReplyOfUserIsRouted ==
  [][(Arrives /\ Arrived.from # ADMIN_ID
              /\ Arrived.handler \in {"admin_reply_handler", "handle_message"})
       => /\ Arrived.handler = "handle_message"
          /\ Arrived.pc \in {"dropped", "await_forward", "await_gemini"}]_vars

(* C17: the pending notice agrees with the availability flag: a pending    *)
(* "available" notice implies admin_available is true and a pending "away" *)
(* notice implies it is false; before any update the flag is false and no  *)
(* notice is pending.                                                      *)
C17_NoticeAgreesWithFlag ==
  /\ Pending = "available" => AdminAvailable
  /\ Pending = "away" => ~AdminAvailable
  /\ Pending \in {None, "available", "away"}
  /\ received = 0 => (~AdminAvailable /\ Pending = None)

C17_Witness ==
  /\ Pending = "away"
  /\ ~AdminAvailable
  /\ \E i \in 1..Len(updates) : updates[i].status = "available"

\* The correlation map.
ForwardedMap == DictGet(bot_data, "forwarded_map", EmptyDict)

(* C18: the correlation map starts empty; an entry is added only by a      *)
(* forward_message that returns, for a text or a photo, and maps the id    *)
(* the forward returned to the chat the message came from; an entry, once  *)
(* in the map, stays in it with the same chat.                             *)
C18_MapGrowsByForwards ==
  /\ DOMAIN ForwardedMap = {}
  /\ [][/\ \A x \in DOMAIN ForwardedMap :
             x \in DOMAIN ForwardedMap' /\ ForwardedMap'[x] = ForwardedMap[x]
        /\ \A x \in DOMAIN ForwardedMap' \ DOMAIN ForwardedMap :
             \E i \in 1..Len(updates) :
               /\ updates[i].pc = "await_forward"
               /\ updates[i].handler \in {"handle_message", "photo_handler"}
               /\ Len(updates') = Len(updates)
               /\ updates'[i].pc # "await_forward"
               /\ updates'[i].fwd = x
               /\ x = next_id /\ next_id' = next_id + 1
               /\ ForwardedMap'[x] = updates[i].from]_vars

C18_Witness ==
  /\ Cardinality(DOMAIN ForwardedMap) >= 2
  /\ \E i, j \in 1..Len(updates) :
       /\ updates[i].handler = "photo_handler"
       /\ updates[i].fwd \in DOMAIN ForwardedMap
       /\ ForwardedMap[updates[i].fwd] = updates[i].from
       /\ updates[j].handler = "handle_message"
       /\ updates[j].fwd \in DOMAIN ForwardedMap
       /\ ForwardedMap[updates[j].fwd] = updates[j].from

(* C19 as claimed: whenever busy_shown of a user is true, the first-contact *)
(* busy message has been sent to that user (or is on its way: the handler  *)
(* that set the flag is about to send it), and no user is sent it more     *)
(* than once.  Stated where the network delivers every message.            *)
C19_Original ==
  ~Failing(env) =>
    \A c \in Chats :
      /\ BusyShown(c) =>
            \/ busy_sent[c] >= 1
            \/ \E i \in 1..Len(updates) :
                 updates[i].from = c /\ IsFirstContactBusy(updates[i])
      /\ busy_sent[c] <= 1

(* C19 as amended: busy_shown of a user becomes true in the step in which  *)
(* a text of that user first reaches the first-time logic of the general   *)
(* branch, whether the admin is away or available; first_time is true for  *)
(* that text and for no later one.  In part_000 the general branch answers *)
(* with the first-contact busy message exactly when first_time is true and *)
(* the admin is away.  No user is sent the first-contact busy message more *)
(* than once.                                                              *)
C19_FirstContactOnce ==
  [][/\ \A c \in Chats :
          (~BusyShown(c) /\ BusyShown(c)')
            => \E i \in 1..Len(updates) :
                 /\ ChecksNotice(i)
                 /\ updates[i].from = c
                 /\ updates'[i].branch = "general"
                 /\ updates'[i].first_time
     /\ \A i \in 1..MaxInFlight :
          (ChecksNotice(i) /\ updates'[i].branch = "general")
            => /\ updates'[i].first_time = ~BusyShown(updates[i].from)
               /\ BusyShown(updates[i].from)'
               /\ updates'[i].admin_available = AdminAvailable
               /\ variant = "part_000"
                    => (updates'[i].reply = FIRST_TIME_BUSY
                          <=> (updates'[i].first_time /\ ~AdminAvailable))
     /\ \A c \in Chats : busy_sent'[c] <= 1]_vars

C19_Witness ==
  \E c \in Chats :
    /\ BusyShown(c)
    /\ busy_sent[c] = 0
    /\ last.from = c /\ last.pc = "done" /\ last.branch = "general"
    /\ last.first_time /\ last.admin_available
    /\ \A i \in 1..Len(updates) : updates[i].from # c

(* C20 as claimed: with handlers interleaving at their awaits, the notice  *)
(* of an admin command is consumed only by a text received after the       *)
(* command: a text that had passed the cooldown gate before the command    *)
(* arrived is never answered with that command's notice.                   *)
C20_Original ==
  [][\A i \in 1..MaxInFlight :
       (ChecksNotice(i) /\ Pending \in {"available", "away"})
         => updates[i].seq > notice_at]_vars

(* C20 as amended: with handlers interleaving at their awaits, the notice  *)
(* of an admin command is consumed by the first handler that reaches the   *)
(* notice check after the command and by no later one; that handler's text *)
(* was received after the command or had been received before it and was   *)
(* parked on its forward or typing filler when the command arrived.  A     *)
(* handler that reaches the check with no notice pending gets none.        *)
C20_FirstCheckAfterCommand ==
  [][\A i \in 1..MaxInFlight :
       ChecksNotice(i)
         => IF Pending \in {"available", "away"}
              THEN /\ notice_at >= 1
                   /\ updates[i].seq # notice_at
                   /\ notice_seen = 0 /\ notice_seen' = 1
                   /\ updates'[i].status = Pending
                   /\ updates'[i].branch = "notice"
                   /\ Pending' = None
              ELSE /\ updates'[i].status = None
                   /\ updates'[i].branch = "general"
                   /\ notice_seen' = notice_seen]_vars

C20_Witness ==
  \E i \in 1..Len(updates) :
    /\ updates[i].branch = "notice"
    /\ updates[i].status \in {"available", "away"}
    /\ updates[i].seq < notice_at
    /\ notice_seen = 1

====
